---- MODULE Spec2Model ----
(***************************************************************************)
(* transform::transfer_queue (src/v/transform/transfer_queue.h): a single  *)
(* producer / single consumer queue bounded by the memory its entries      *)
(* report, built on one seastar condition_variable and abortable through   *)
(* seastar abort_sources.                                                  *)
(*                                                                         *)
(* Fibers.  "prod" calls push, "cons" calls pop_one / pop_all; clear() and *)
(* abort_source::request_abort() are synchronous calls made from outside.  *)
(* A coroutine runs without interruption until it awaits a future that is  *)
(* not ready (or the reactor asks it to yield at a co_await); every such   *)
(* point is a value of the fiber's pc, and one action is one uninterrupted *)
(* run of a fiber between two such points.                                 *)
(*                                                                         *)
(*   idle         no call in flight                                        *)
(*   cv_wait      inside _cond_var.wait(pred): either queued in the        *)
(*                condition variable's waiter list, or woken and scheduled *)
(*                to evaluate pred again                                   *)
(*   wait_ret     pred held; wait_for_free_memory / wait_for_non_empty is  *)
(*                scheduled to resume after its co_await                   *)
(*   op_ret       the wait_for_* coroutine finished; push / pop_* is       *)
(*                scheduled to resume after its co_await                   *)
(***************************************************************************)
EXTENDS Integers, Sequences, FiniteSets, TLC

\* Bounds of the model.
MaxPushes == 3
MaxItemSize == 3
MaxMemory == 2
SizeBits == 4

\* The abort sources callers hand in; the two roles may share one.
Tokens == {"as1", "as2"}
Fibers == {"prod", "cons"}
ItemSizes == 1..MaxItemSize

VARIABLES
    max_memory,    \* _max_memory
    entries,       \* _entries
    used_memory,   \* _used_memory
    cond_var,      \* _cond_var: [waiters, signalled]
    aborted,       \* the abort sources on which request_abort() has run
    subs,          \* fibers holding a live subscription `sub`
    prod,          \* the producer fiber: pc and the locals of push
    cons,          \* the consumer fiber: pc and the locals of pop_one/pop_all
    npush,         \* number of push calls made so far
    admitted,      \* ids of the entries appended by push, in order
    returned,      \* ids of the entries returned by pop_one/pop_all, in order
    discarded      \* ids of the entries clear() threw away

vars == <<max_memory, entries, used_memory, cond_var, aborted, subs, prod, cons,
          npush, admitted, returned, discarded>>

Range(s) == {s[i] : i \in DOMAIN s}

\* size_t
SizeMod == 2 ^ SizeBits
Add(a, b) == (a + b) % SizeMod
Sub(a, b) == (a - b + SizeMod) % SizeMod

Min(a, b) == IF a <= b THEN a ELSE b

\* T::memory_usage()
memory_usage(entry) == entry.mem

----------------------------------------------------------------------------
\* seastar::condition_variable

\* signal(): resolve the first waiter, or remember the signal when nobody waits.
signal(cv) ==
    IF cv.waiters = <<>>
    THEN [cv EXCEPT !.signalled = TRUE]
    ELSE [cv EXCEPT !.waiters = Tail(@)]

RECURSIVE signal_n(_, _)
signal_n(cv, n) == IF n = 0 THEN cv ELSE signal_n(signal(cv), n - 1)

\* One turn of wait(pred) for fiber f when pred is false: wait() takes a
\* remembered signal and pred is evaluated again (at once, or after a yield),
\* otherwise f joins the back of the waiter list.
wait_again(cv, f) ==
    IF cv.signalled
    THEN { [waiters |-> Append(cv.waiters, f), signalled |-> FALSE],
           [waiters |-> cv.waiters, signalled |-> FALSE] }
    ELSE { [waiters |-> Append(cv.waiters, f), signalled |-> FALSE] }

Queued(f) == f \in Range(cond_var.waiters)

----------------------------------------------------------------------------
\* The predicates of the two waits.

\* Faulty variant: room for anything as long as the budget is not used up.
free_memory_pred_any_room(as, needed_memory) ==
    \/ as \in aborted
    \/ used_memory < max_memory

free_memory_pred(as, needed_memory) ==
    \/ as \in aborted
    \/ Add(used_memory, needed_memory) <= max_memory

non_empty_pred(as) ==
    \/ as \in aborted
    \/ entries # <<>>

\* as->subscribe(...) yields a subscription unless the source has fired.
subscribe(as) == as \notin aborted

----------------------------------------------------------------------------
\* push

\* Faulty variant: the charge of an entry is not capped by _max_memory.
push_mem_uncapped(entry) == memory_usage(entry)

\* size_t mem = std::min(entry.memory_usage(), _max_memory);
push_mem(entry) == Min(memory_usage(entry), max_memory)

\* Faulty variant: push does not look at the abort source after the wait.
push_never_aborted(as) == FALSE

\* if (as->abort_requested()) co_return;
push_aborted(as) == as \in aborted

\* Faulty variant: the entry is put at the head.
push_front(es, entry) == <<entry>> \o es

\* _entries.push_back(std::move(entry));
push_back(es, entry) == Append(es, entry)

\* Faulty variant: push appends and tells nobody.
push_no_signal(cv) == cv

\* _cond_var.signal() at the end of push
push_signal(cv) == signal(cv)

\* The part of push after `co_await wait_for_free_memory(as, mem)`; p is the
\* producer with the locals of the call.
PushBody(p) ==
    IF push_aborted(p.as)
    THEN /\ prod' = [p EXCEPT !.pc = "idle", !.res = "dropped"]
         /\ UNCHANGED <<entries, used_memory, cond_var, admitted>>
    ELSE /\ entries' = push_back(entries, [id |-> p.entry.id, mem |-> p.entry.mem,
                                           charge |-> p.mem])
         /\ used_memory' = Add(used_memory, p.mem)
         /\ cond_var' = push_signal(cond_var)
         /\ admitted' = Append(admitted, p.entry.id)
         /\ prod' = [p EXCEPT !.pc = "idle", !.res = "admitted"]

\* push(entry, as) is called and runs up to its first suspension.  m is
\* entry.memory_usage().  The three cases are those of wait_for_free_memory:
\* no subscription (the source has fired), so no wait; pred true at once, so
\* _cond_var.wait(pred) is ready; pred false, so the producer waits.  Where
\* the awaited future is ready the coroutine goes on at once, or yields to the
\* reactor at that co_await and is resumed later (pc wait_ret, op_ret).
\* empty0 and fired0 record how the call found the buffer and the source,
\* waited whether the call was ever queued on the condition variable.
push(m, as) ==
    /\ prod.pc = "idle"
    /\ npush < MaxPushes
    /\ npush' = npush + 1
    /\ UNCHANGED <<max_memory, aborted, cons, returned, discarded>>
    /\ LET entry == [id |-> npush + 1, mem |-> m]
           p == [pc |-> "idle", entry |-> entry, mem |-> push_mem(entry), as |-> as,
                 waited |-> FALSE, res |-> "none",
                 empty0 |-> entries = <<>>, fired0 |-> as \in aborted]
       IN  \/ /\ ~subscribe(as)
              /\ UNCHANGED subs
              /\ \/ PushBody(p)
                 \/ /\ prod' = [p EXCEPT !.pc = "op_ret"]
                    /\ UNCHANGED <<entries, used_memory, cond_var, admitted>>
           \/ /\ subscribe(as)
              /\ free_memory_pred(as, p.mem)
              /\ \/ PushBody(p) /\ UNCHANGED subs
                 \/ /\ prod' = [p EXCEPT !.pc = "wait_ret"]
                    /\ subs' = subs \cup {"prod"}
                    /\ UNCHANGED <<entries, used_memory, cond_var, admitted>>
                 \/ /\ prod' = [p EXCEPT !.pc = "op_ret"]
                    /\ UNCHANGED <<subs, entries, used_memory, cond_var, admitted>>
           \/ /\ subscribe(as)
              /\ ~free_memory_pred(as, p.mem)
              /\ subs' = subs \cup {"prod"}
              /\ \E cv \in wait_again(cond_var, "prod") :
                    /\ cond_var' = cv
                    /\ prod' = [p EXCEPT !.pc = "cv_wait",
                                         !.waited = "prod" \in Range(cv.waiters)]
              /\ UNCHANGED <<entries, used_memory, admitted>>

\* The producer was woken (or yielded) inside _cond_var.wait(pred): pred again.
wait_for_free_memory_wake ==
    /\ prod.pc = "cv_wait"
    /\ ~Queued("prod")
    /\ IF free_memory_pred(prod.as, prod.mem)
       THEN /\ prod' = [prod EXCEPT !.pc = "wait_ret"]
            /\ UNCHANGED cond_var
       ELSE \E cv \in wait_again(cond_var, "prod") :
               /\ cond_var' = cv
               /\ prod' = [prod EXCEPT !.waited = @ \/ "prod" \in Range(cv.waiters)]
    /\ UNCHANGED <<max_memory, entries, used_memory, aborted, subs, cons, npush,
                   admitted, returned, discarded>>

\* wait_for_free_memory resumes after its co_await and returns: `sub` is destroyed.
wait_for_free_memory_return ==
    /\ prod.pc = "wait_ret"
    /\ subs' = subs \ {"prod"}
    /\ prod' = [prod EXCEPT !.pc = "op_ret"]
    /\ UNCHANGED <<max_memory, entries, used_memory, cond_var, aborted, cons, npush,
                   admitted, returned, discarded>>

\* push resumes after `co_await wait_for_free_memory(as, mem)`.
push_resume ==
    /\ prod.pc = "op_ret"
    /\ PushBody(prod)
    /\ UNCHANGED <<max_memory, aborted, subs, cons, npush, returned, discarded>>

----------------------------------------------------------------------------
\* pop_one, pop_all

\* Faulty variant: pop_one looks only at the buffer after the wait.
pop_one_absent_if_empty(as) == entries = <<>>

\* if (as->abort_requested() || _entries.empty()) co_return std::nullopt;
pop_one_absent(as) == as \in aborted \/ entries = <<>>

\* Faulty variant: the charge taken back is not capped by _max_memory.
pop_one_mem_uncapped(entry) == memory_usage(entry)

\* _used_memory -= std::min(entry.memory_usage(), _max_memory);
pop_one_mem(entry) == Min(memory_usage(entry), max_memory)

\* _entries.pop_front();
pop_front(es) == Tail(es)

\* Faulty variant: pop_one does not signal after taking an entry.
pop_one_no_signal(cv) == cv

\* _cond_var.signal(); in pop_one
pop_one_signal(cv) == signal(cv)

\* Faulty variant: pop_all does not look at the abort source after the wait.
pop_all_never_aborted(as) == FALSE

\* if (as->abort_requested()) co_return {};
pop_all_aborted(as) == as \in aborted

\* Faulty variant: the buffer is copied out and not emptied.
exchange_copy(es) == [taken |-> es, left |-> es]

\* Faulty variant: the buffer is emptied before it is handed out.
exchange_lost(es) == [taken |-> <<>>, left |-> <<>>]

\* Faulty variant: only the first entry is taken.
exchange_head(es) ==
    IF es = <<>> THEN [taken |-> <<>>, left |-> <<>>]
    ELSE [taken |-> <<Head(es)>>, left |-> Tail(es)]

\* std::exchange(_entries, {}): what is returned and what is left.
exchange(es) == [taken |-> es, left |-> <<>>]

Ids(es) == [i \in DOMAIN es |-> es[i].id]

\* The part of pop_one after `co_await wait_for_non_empty(as)`.
PopOneBody(c) ==
    IF pop_one_absent(c.as)
    THEN /\ cons' = [c EXCEPT !.pc = "idle", !.res = <<>>,
                               !.kind = IF c.as \in aborted THEN "aborted" ELSE "empty"]
         /\ UNCHANGED <<entries, used_memory, cond_var, returned>>
    ELSE LET entry == Head(entries)
         IN  /\ entries' = pop_front(entries)
             /\ used_memory' = Sub(used_memory, pop_one_mem(entry))
             /\ cond_var' = pop_one_signal(cond_var)
             /\ returned' = Append(returned, entry.id)
             /\ cons' = [c EXCEPT !.pc = "idle", !.kind = "item", !.res = <<entry>>]

\* The part of pop_all after `co_await wait_for_non_empty(as)`.
PopAllBody(c) ==
    IF pop_all_aborted(c.as)
    THEN /\ cons' = [c EXCEPT !.pc = "idle", !.kind = "aborted", !.res = <<>>]
         /\ UNCHANGED <<entries, used_memory, cond_var, returned>>
    ELSE /\ used_memory' = 0
         /\ cond_var' = signal(cond_var)
         /\ entries' = exchange(entries).left
         /\ returned' = returned \o Ids(exchange(entries).taken)
         /\ cons' = [c EXCEPT !.pc = "idle", !.kind = "batch",
                               !.res = exchange(entries).taken]

\* Faulty variant: pop_one written as pop_all is, without the test of
\* _entries.empty().
PopBodyNoEmptyTest(c) == PopAllBody(c)

PopBody(c) == IF c.op = "pop_one" THEN PopOneBody(c) ELSE PopAllBody(c)

\* pop_one(as) or pop_all(as) is called and runs up to its first suspension;
\* the cases are those of push, with wait_for_non_empty.
pop(op, as) ==
    /\ cons.pc = "idle"
    /\ UNCHANGED <<max_memory, aborted, prod, npush, admitted, discarded>>
    /\ LET c == [pc |-> "idle", op |-> op, as |-> as, waited |-> FALSE,
                 kind |-> "none", res |-> <<>>, fired0 |-> as \in aborted]
       IN  \/ /\ ~subscribe(as)
              /\ UNCHANGED subs
              /\ \/ PopBody(c)
                 \/ /\ cons' = [c EXCEPT !.pc = "op_ret"]
                    /\ UNCHANGED <<entries, used_memory, cond_var, returned>>
           \/ /\ subscribe(as)
              /\ non_empty_pred(as)
              /\ \/ PopBody(c) /\ UNCHANGED subs
                 \/ /\ cons' = [c EXCEPT !.pc = "wait_ret"]
                    /\ subs' = subs \cup {"cons"}
                    /\ UNCHANGED <<entries, used_memory, cond_var, returned>>
                 \/ /\ cons' = [c EXCEPT !.pc = "op_ret"]
                    /\ UNCHANGED <<subs, entries, used_memory, cond_var, returned>>
           \/ /\ subscribe(as)
              /\ ~non_empty_pred(as)
              /\ subs' = subs \cup {"cons"}
              /\ \E cv \in wait_again(cond_var, "cons") :
                    /\ cond_var' = cv
                    /\ cons' = [c EXCEPT !.pc = "cv_wait",
                                         !.waited = "cons" \in Range(cv.waiters)]
              /\ UNCHANGED <<entries, used_memory, returned>>

\* The consumer was woken (or yielded) inside _cond_var.wait(pred): pred again.
wait_for_non_empty_wake ==
    /\ cons.pc = "cv_wait"
    /\ ~Queued("cons")
    /\ IF non_empty_pred(cons.as)
       THEN /\ cons' = [cons EXCEPT !.pc = "wait_ret"]
            /\ UNCHANGED cond_var
       ELSE \E cv \in wait_again(cond_var, "cons") :
               /\ cond_var' = cv
               /\ cons' = [cons EXCEPT !.waited = @ \/ "cons" \in Range(cv.waiters)]
    /\ UNCHANGED <<max_memory, entries, used_memory, aborted, subs, prod, npush,
                   admitted, returned, discarded>>

\* wait_for_non_empty resumes after its co_await and returns: `sub` is destroyed.
wait_for_non_empty_return ==
    /\ cons.pc = "wait_ret"
    /\ subs' = subs \ {"cons"}
    /\ cons' = [cons EXCEPT !.pc = "op_ret"]
    /\ UNCHANGED <<max_memory, entries, used_memory, cond_var, aborted, prod, npush,
                   admitted, returned, discarded>>

\* pop_one / pop_all resumes after `co_await wait_for_non_empty(as)`.
pop_resume ==
    /\ cons.pc = "op_ret"
    /\ PopBody(cons)
    /\ UNCHANGED <<max_memory, aborted, subs, prod, npush, admitted, discarded>>

----------------------------------------------------------------------------
\* clear, and the abort sources

\* Faulty variant: the entries are dropped and their charges are kept.
clear_entries_only ==
    /\ entries' = <<>>
    /\ discarded' = discarded \cup Range(Ids(entries))
    /\ UNCHANGED <<max_memory, used_memory, cond_var, aborted, subs, prod, cons,
                   npush, admitted, returned>>

\* Faulty variant: clear() signals the condition variable as pop_all does.
clear_and_signal ==
    /\ entries' = <<>>
    /\ used_memory' = 0
    /\ cond_var' = signal(cond_var)
    /\ discarded' = discarded \cup Range(Ids(entries))
    /\ UNCHANGED <<max_memory, aborted, subs, prod, cons, npush, admitted,
                   returned>>

\* void clear() noexcept
clear ==
    /\ entries' = <<>>
    /\ used_memory' = 0
    /\ discarded' = discarded \cup Range(Ids(entries))
    /\ UNCHANGED <<max_memory, cond_var, aborted, subs, prod, cons, npush, admitted,
                   returned>>

\* The abort source a fiber's call in flight was given.
as_of(f) == IF f = "prod" THEN prod.as ELSE cons.as

\* as.request_abort(): the source is fired and the callback of every live
\* subscription on it runs once: [this]() noexcept { _cond_var.signal(); }
request_abort(as) ==
    /\ as \notin aborted
    /\ aborted' = aborted \cup {as}
    /\ LET hit == {f \in subs : as_of(f) = as}
       IN  /\ subs' = subs \ hit
           /\ cond_var' = signal_n(cond_var, Cardinality(hit))
    /\ UNCHANGED <<max_memory, entries, used_memory, prod, cons, npush, admitted,
                   returned, discarded>>

----------------------------------------------------------------------------
\* explicit transfer_queue(size_t max_memory_usage)
Init ==
    /\ max_memory = MaxMemory
    /\ entries = <<>>
    /\ used_memory = 0
    /\ cond_var = [waiters |-> <<>>, signalled |-> FALSE]
    /\ aborted = {}
    /\ subs = {}
    /\ prod = [pc |-> "idle", entry |-> [id |-> 0, mem |-> 0], mem |-> 0, as |-> "as1",
               waited |-> FALSE, res |-> "none", empty0 |-> TRUE, fired0 |-> FALSE]
    /\ cons = [pc |-> "idle", op |-> "pop_one", as |-> "as1", waited |-> FALSE,
               kind |-> "none", res |-> <<>>, fired0 |-> FALSE]
    /\ npush = 0
    /\ admitted = <<>>
    /\ returned = <<>>
    /\ discarded = {}

Next ==
    \/ \E m \in ItemSizes, as \in Tokens : push(m, as)
    \/ wait_for_free_memory_wake
    \/ wait_for_free_memory_return
    \/ push_resume
    \/ \E op \in {"pop_one", "pop_all"}, as \in Tokens : pop(op, as)
    \/ wait_for_non_empty_wake
    \/ wait_for_non_empty_return
    \/ pop_resume
    \/ clear
    \/ \E as \in Tokens : request_abort(as)

Spec == Init /\ [][Next]_vars

\* The reactor runs every task it has scheduled: a fiber that was woken, or
\* that yielded, is resumed.
ProducerResumes == wait_for_free_memory_wake \/ wait_for_free_memory_return \/ push_resume
ConsumerResumes == wait_for_non_empty_wake \/ wait_for_non_empty_return \/ pop_resume
FairScheduling == WF_vars(ProducerResumes) /\ WF_vars(ConsumerResumes)

\* One producer and one consumer on one abort source that never fires, no
\* clear(), and a consumer that calls pop_one or pop_all again whenever its
\* last call has returned.
ConsumerCalls == \E op \in {"pop_one", "pop_all"} : pop(op, "as1")

NextSteady ==
    \/ \E m \in ItemSizes : push(m, "as1")
    \/ wait_for_free_memory_wake
    \/ wait_for_free_memory_return
    \/ push_resume
    \/ ConsumerCalls
    \/ wait_for_non_empty_wake
    \/ wait_for_non_empty_return
    \/ pop_resume

SpecSteady ==
    Init /\ [][NextSteady]_vars /\ FairScheduling /\ WF_vars(ConsumerCalls)

\* Every operation of the queue, abort sources that may fire at any time, and
\* fair scheduling of the fibers; callers are free to stop calling.
SpecFair == Init /\ [][Next]_vars /\ FairScheduling

\* T is any MemoryMeasurable type: nothing makes memory_usage() of an entry
\* that sits in the buffer report what it reported when push read it.
memory_usage_changes(i, m) ==
    /\ i \in DOMAIN entries
    /\ m # memory_usage(entries[i])
    /\ entries' = [entries EXCEPT ![i].mem = m]
    /\ UNCHANGED <<max_memory, used_memory, cond_var, aborted, subs, prod, cons,
                   npush, admitted, returned, discarded>>

\* One producer and one consumer, no cancellation and no clear(), over
\* entries whose reported size may change while they are buffered.
NextDrift ==
    \/ NextSteady
    \/ \E i \in 1..MaxPushes, m \in ItemSizes : memory_usage_changes(i, m)

SpecDrift == Init /\ [][NextDrift]_vars

\* push(entry, as) called by a second producer fiber while the push of the
\* first is in flight, in the case where it does not suspend: its token has
\* not fired, pred is true at once, and the coroutine runs to its co_return.
push_other(m, as) ==
    /\ prod.pc # "idle"
    /\ npush < MaxPushes
    /\ npush' = npush + 1
    /\ LET entry == [id |-> npush + 1, mem |-> m]
           mem == push_mem(entry)
       IN  /\ subscribe(as)
           /\ free_memory_pred(as, mem)
           /\ ~push_aborted(as)
           /\ entries' = push_back(entries, [id |-> entry.id, mem |-> entry.mem,
                                             charge |-> mem])
           /\ used_memory' = Add(used_memory, mem)
           /\ cond_var' = push_signal(cond_var)
           /\ admitted' = Append(admitted, entry.id)
    /\ UNCHANGED <<max_memory, aborted, subs, prod, cons, returned, discarded>>

\* Two producers and one consumer, no cancellation and no clear().
NextTwoProducers ==
    \/ NextSteady
    \/ \E m \in ItemSizes : push_other(m, "as1")

SpecTwoProducers == Init /\ [][NextTwoProducers]_vars

\* std::numeric_limits<size_t>::max(), and reported sizes up to half the range
\* of size_t.
SizeMax == SizeMod - 1
WideSizes == ItemSizes \cup {SizeMod \div 2}

\* transfer_queue(max_memory_usage) with a small budget or with the largest
\* one the parameter type can hold.
InitWide ==
    /\ max_memory \in {MaxMemory, SizeMax}
    /\ entries = <<>>
    /\ used_memory = 0
    /\ cond_var = [waiters |-> <<>>, signalled |-> FALSE]
    /\ aborted = {}
    /\ subs = {}
    /\ prod = [pc |-> "idle", entry |-> [id |-> 0, mem |-> 0], mem |-> 0, as |-> "as1",
               waited |-> FALSE, res |-> "none", empty0 |-> TRUE, fired0 |-> FALSE]
    /\ cons = [pc |-> "idle", op |-> "pop_one", as |-> "as1", waited |-> FALSE,
               kind |-> "none", res |-> <<>>, fired0 |-> FALSE]
    /\ npush = 0
    /\ admitted = <<>>
    /\ returned = <<>>
    /\ discarded = {}

\* One producer and one consumer, no cancellation and no clear().
NextWide ==
    \/ \E m \in WideSizes : push(m, "as1")
    \/ ProducerResumes
    \/ ConsumerCalls
    \/ ConsumerResumes

SpecWide == InitWide /\ [][NextWide]_vars

----------------------------------------------------------------------------
\* Properties

Quiescent == prod.pc = "idle" /\ cons.pc = "idle"

\* A step in which a push (a pop) returns to its caller.
PushReturns == prod'.pc = "idle" /\ prod' # prod
PopReturns == cons'.pc = "idle" /\ cons' # cons

RECURSIVE ChargeSum(_)
ChargeSum(es) == IF es = <<>> THEN 0 ELSE Head(es).charge + ChargeSum(Tail(es))

\* C1: in every state, hence at every quiescent point, used_memory is the sum
\* of the charges min(memory_usage, max_memory) that push recorded for the
\* entries now buffered; it is 0 when the buffer is empty.
C1_AccountingConsistent ==
    /\ used_memory = ChargeSum(entries)
    /\ entries = <<>> => used_memory = 0

\* C1 witness: a quiescent point after a pop and a cancellation, with two
\* entries buffered that fill the budget.
C1_Witness ==
    /\ Quiescent
    /\ Len(entries) = 2
    /\ used_memory = max_memory
    /\ returned # <<>>
    /\ aborted # {}

\* C2: entries leave in the order push admitted them: the ids returned so far
\* are in admission order, and as long as clear() has thrown nothing away the
\* k-th entry returned is the k-th entry admitted, the buffer holding the
\* admitted entries not yet returned, in order.
C2_FifoOrder ==
    /\ \A i, j \in DOMAIN returned : i < j => returned[i] < returned[j]
    /\ discarded = {} =>
          /\ Len(returned) <= Len(admitted)
          /\ \A k \in DOMAIN returned : returned[k] = admitted[k]
          /\ returned \o Ids(entries) = admitted

\* C2 witness: three entries were admitted and pop_one has returned the third.
C2_Witness ==
    /\ returned = <<1, 2, 3>>
    /\ admitted = <<1, 2, 3>>
    /\ discarded = {}
    /\ cons.pc = "idle" /\ cons.op = "pop_one" /\ cons.kind = "item"

\* C3: a push called on an empty buffer with a token that has not fired never
\* waits on the condition variable, whatever the entry's size, and when it
\* returns with the token still not fired the buffer holds exactly its entry.
C3_NeverWaits ==
    (prod.empty0 /\ ~prod.fired0) => (~prod.waited /\ prod.pc # "cv_wait")

C3_Admitted ==
    (PushReturns /\ prod'.empty0 /\ prod'.as \notin aborted)
        => /\ prod'.res = "admitted"
           /\ entries' = <<[id |-> prod'.entry.id, mem |-> prod'.entry.mem,
                            charge |-> Min(prod'.entry.mem, max_memory)]>>

C3_EmptyQueueExemption == []C3_NeverWaits /\ [][C3_Admitted]_vars

\* C3 witness: an entry larger than max_memory was admitted into the empty
\* buffer without waiting.
C3_Witness ==
    /\ prod.pc = "idle" /\ prod.res = "admitted"
    /\ prod.empty0 /\ ~prod.fired0 /\ ~prod.waited
    /\ prod.entry.mem > max_memory
    /\ Len(entries) = 1 /\ entries[1].id = prod.entry.id

\* C5: a push that waited for capacity and whose token has fired by the time
\* it returns completes as dropped: the step in which it returns leaves the
\* buffer and used_memory as they were, and its entry is never in the buffer.
C5_DropStep ==
    (PushReturns /\ prod'.waited /\ prod'.as \in aborted)
        => /\ prod'.res = "dropped"
           /\ UNCHANGED <<entries, used_memory>>

C5_NeverAppended ==
    prod.res = "dropped"
        => /\ prod.entry.id \notin Range(admitted)
           /\ prod.entry.id \notin Range(Ids(entries))

C5_CancelledPushDrops == []C5_NeverAppended /\ [][C5_DropStep]_vars

\* C5 witness: a push that waited on a queue at budget has returned as dropped
\* after its token fired, and the queue is still at budget.
C5_Witness ==
    /\ prod.pc = "idle" /\ prod.res = "dropped"
    /\ prod.waited /\ ~prod.fired0 /\ prod.as \in aborted
    /\ entries # <<>>
    /\ used_memory = max_memory

\* C6: a pop_one or pop_all that waited on the empty queue and whose token has
\* fired by the time it returns gives back nothing (absent, or the empty
\* sequence), and the step in which it returns leaves the buffer and
\* used_memory as they were.
C6_CancelledPop ==
    [][(PopReturns /\ cons'.waited /\ cons'.as \in aborted)
          => /\ cons'.kind = "aborted"
             /\ cons'.res = <<>>
             /\ UNCHANGED <<entries, used_memory>>]_vars

\* C6 witness: a pop_one that waited on the empty queue returned absent after
\* its token fired, and the queue is still empty.
C6_Witness ==
    /\ cons.pc = "idle" /\ cons.op = "pop_one" /\ cons.kind = "aborted"
    /\ cons.waited /\ ~cons.fired0 /\ cons.as \in aborted
    /\ entries = <<>> /\ used_memory = 0

\* A step of clear().
ClearStep ==
    /\ prod' = prod /\ cons' = cons
    /\ entries' = <<>> /\ used_memory' = 0

\* C8: the buffer and used_memory change only in a step of clear(), in the
\* return of a push whose token has not fired, or in the return of a pop whose
\* token has not fired: an operation whose token has fired changes neither,
\* whether or not it had been woken before the token fired.
C8_NoEffectAfterCancel ==
    [][(entries' # entries \/ used_memory' # used_memory)
          => \/ ClearStep
             \/ PushReturns /\ cons' = cons /\ prod'.as \notin aborted
             \/ PopReturns /\ prod' = prod /\ cons'.as \notin aborted]_vars

\* C8 witness: the consumer waited on the empty queue, the only push was
\* admitted, and the pop returned cancelled leaving that entry in the buffer.
C8_Witness ==
    /\ cons.pc = "idle" /\ cons.kind = "aborted" /\ cons.waited
    /\ npush = 1 /\ admitted = <<1>> /\ returned = <<>>
    /\ Len(entries) = 1 /\ used_memory = entries[1].charge

\* C9: an operation called with a token that has already fired takes no
\* subscription and never waits, returns the cancelled result, and leaves the
\* buffer and used_memory as they were, whatever the queue holds.
C9_NoWait ==
    /\ prod.fired0 => (~prod.waited /\ prod.pc \in {"idle", "op_ret"})
    /\ cons.fired0 => (~cons.waited /\ cons.pc \in {"idle", "op_ret"})

C9_Cancelled ==
    /\ (PushReturns /\ prod'.fired0)
          => (prod'.res = "dropped" /\ UNCHANGED <<entries, used_memory>>)
    /\ (PopReturns /\ cons'.fired0)
          => /\ cons'.kind = "aborted" /\ cons'.res = <<>>
             /\ UNCHANGED <<entries, used_memory>>

C9_PreFiredToken == []C9_NoWait /\ [][C9_Cancelled]_vars

\* C9 witness: with an entry buffered and room for more, a push and a pop
\* called with a fired token have both returned cancelled.
C9_Witness ==
    /\ Quiescent
    /\ prod.fired0 /\ prod.res = "dropped"
    /\ cons.fired0 /\ cons.kind = "aborted"
    /\ entries # <<>>
    /\ used_memory + prod.mem <= max_memory

\* C10: a pop_all that returns with its token not fired returns the whole
\* buffer as it is in the step in which it returns, in push order, and that
\* same step leaves the buffer empty and used_memory 0.
C10_DrainAtomic ==
    [][(PopReturns /\ cons'.op = "pop_all" /\ cons'.as \notin aborted)
          => /\ cons'.kind = "batch"
             /\ cons'.res = entries
             /\ \A i, j \in DOMAIN cons'.res :
                   i < j => cons'.res[i].id < cons'.res[j].id
             /\ entries' = <<>>
             /\ used_memory' = 0]_vars

\* C10 witness: pop_all has returned two entries and left the queue empty.
C10_Witness ==
    /\ cons.pc = "idle" /\ cons.op = "pop_all" /\ cons.kind = "batch"
    /\ Len(cons.res) = 2
    /\ entries = <<>> /\ used_memory = 0

\* C4: with no cancellation and no clear(), fair scheduling, and a consumer
\* that keeps calling pop_one or pop_all, a push that waits for capacity is
\* admitted in the end.
C4_NoBackpressureDeadlock ==
    \A id \in 1..MaxPushes :
        (prod.pc = "cv_wait" /\ prod.waited /\ prod.entry.id = id)
            ~> (id \in Range(admitted))

\* C4 witness: a push that waited for capacity has been admitted.
C4_Witness ==
    /\ prod.pc = "idle" /\ prod.waited /\ prod.res = "admitted"
    /\ prod.entry.id \in Range(admitted)

\* C7: under fair scheduling, an operation in flight whose token has fired
\* returns in the end, whichever role's waiter a signal went to.
C7_CancelWakesAll ==
    /\ (prod.pc # "idle" /\ prod.as \in aborted) ~> (prod.pc = "idle")
    /\ (cons.pc # "idle" /\ cons.as \in aborted) ~> (cons.pc = "idle")

\* C11 as stated: a pop_all that returns the empty sequence had its token fired.
C11_EmptyOnlyOnCancel ==
    [][(PopReturns /\ cons'.op = "pop_all" /\ cons'.res = <<>>)
          => cons'.as \in aborted]_vars

\* C11 as amended: a pop_all that returns the empty sequence either had its
\* token fired, or was resumed, after its predicate had held, on a buffer that
\* clear() had emptied in between.
C11_EmptyOnCancelOrClear ==
    [][(PopReturns /\ cons'.op = "pop_all" /\ cons'.res = <<>>)
          => \/ cons'.as \in aborted
             \/ /\ cons.pc \in {"wait_ret", "op_ret"}
                /\ entries = <<>>
                /\ discarded # {}]_vars

\* C11 witness: pop_all has returned the empty sequence with its token not
\* fired, after clear() threw entries away.
C11_Witness ==
    /\ cons.pc = "idle" /\ cons.op = "pop_all" /\ cons.kind = "batch"
    /\ cons.res = <<>>
    /\ cons.as \notin aborted
    /\ discarded # {}

CallOfClear ==
    /\ prod' = prod /\ cons' = cons
    /\ cond_var' = cond_var
    /\ aborted' = aborted /\ subs' = subs

\* C13: clear() can be called in every reachable state, whatever the buffer
\* holds and whether or not a push or a pop is suspended, and its one step
\* leaves the buffer empty and used_memory 0.
C13_ClearResets ==
    /\ [](ENABLED clear)
    /\ [][CallOfClear => (entries' = <<>> /\ used_memory' = 0)]_vars

\* C13 witness: clear() has emptied a buffer while a push was waiting on the
\* condition variable and a pop was between its wake-up and its resumption.
C13_Witness ==
    /\ Queued("prod")
    /\ cons.pc \in {"wait_ret", "op_ret"}
    /\ entries = <<>> /\ used_memory = 0
    /\ discarded # {}

\* A step that takes fiber f out of the waiter list of the condition variable.
Dequeued(f) == Queued(f) /\ f \notin Range(cond_var'.waiters)

\* C14, clear() wakes nobody: a step of clear() that throws entries away
\* leaves the condition variable and both fibers as they were.
C14_ClearLeavesWaiters ==
    (discarded' # discarded) => (cond_var' = cond_var /\ prod' = prod /\ cons' = cons)

\* The other fiber has no call in flight.
AloneInCall(f) == IF f = "prod" THEN cons.pc = "idle" ELSE prod.pc = "idle"

\* C14, what ends a wait: a fiber leaves the waiter list only in the return of
\* an admitted push, in the return of a pop that took entries, or in a step
\* in which an abort source fires: its own, when no other call is in flight.
C14_WokenBySignalOnly ==
    \A f \in Fibers :
        Dequeued(f) => \/ PushReturns /\ admitted' # admitted
                       \/ PopReturns /\ cons'.kind \in {"item", "batch"}
                       \/ /\ aborted' # aborted
                          /\ AloneInCall(f) => as_of(f) \in aborted'

\* C14, both suspended: with the producer and the consumer both in the waiter
\* list, the only step that changes a fiber or the condition variable is the
\* firing of an abort source.
C14_OnlyCancelUnblocks ==
    (/\ Queued("prod") /\ Queued("cons")
     /\ (prod' # prod \/ cons' # cons \/ cond_var' # cond_var))
        => aborted' # aborted

\* C14: clear() does not wake waiters; a push suspended before clear() stays
\* suspended after it although used_memory is 0, until a push or a pop signals
\* or a cancellation fires, and with the consumer suspended too only a
\* cancellation unblocks them.
C14_ClearDoesNotWake ==
    /\ [][C14_ClearLeavesWaiters]_vars
    /\ [][C14_WokenBySignalOnly]_vars
    /\ [][C14_OnlyCancelUnblocks]_vars

\* C14 witness: after clear() the producer is still in the waiter list with
\* used_memory 0, and the consumer has joined it on the emptied queue.
C14_Witness ==
    /\ cond_var.waiters = <<"prod", "cons">>
    /\ entries = <<>> /\ used_memory = 0
    /\ discarded # {}
    /\ aborted = {}

\* C15, at admission: the step in which push appends starts in a state where
\* used_memory plus the charge of the entry is at most max_memory, and adds
\* exactly that charge.
C15_AdmittedWithinBudget ==
    (admitted' # admitted)
        => /\ PushReturns
           /\ used_memory + prod'.mem <= max_memory
           /\ used_memory' = used_memory + prod'.mem

\* C15: with one producer and one consumer used_memory is at most max_memory
\* in every reachable state, and push appends only where the charge fits,
\* whatever ran between the producer's predicate check and its resumption.
C15_BudgetInvariant ==
    /\ [](used_memory <= max_memory)
    /\ [][C15_AdmittedWithinBudget]_vars

\* C15 witness: a push that had to wait was admitted after a pop made room,
\* and filled the budget again with two entries in the buffer.
C15_Witness ==
    /\ prod.pc = "idle" /\ prod.waited /\ prod.res = "admitted"
    /\ Len(entries) = 2
    /\ used_memory = max_memory
    /\ returned # <<>>

\* C16, the signal of push is not lost: after the step in which a push is
\* admitted the consumer is not in the waiter list.
C16_SignalNotLost ==
    (admitted' # admitted) => ~Queued("cons")'

\* C16: with one producer, one consumer, fair scheduling, no cancellation and
\* no clear(), a pop that is waiting while the buffer holds an admitted entry
\* returns a non-empty result in the end.
C16_ConsumerProgress ==
    /\ [][C16_SignalNotLost]_vars
    /\ (cons.pc = "cv_wait" /\ entries # <<>>)
          ~> (cons.pc = "idle" /\ cons.res # <<>>)

\* C16 witness: a pop_all that was suspended on the empty queue has returned
\* what was pushed in the meantime.
C16_Witness ==
    /\ cons.pc = "idle" /\ cons.waited /\ cons.op = "pop_all"
    /\ cons.kind = "batch" /\ cons.res # <<>>
    /\ aborted = {} /\ discarded = {}

\* C17: a pop_one that finds the buffer empty when it goes on after its wait
\* (clear() ran after it was woken, or its token fired) returns absent, and the
\* step leaves the buffer, used_memory and the condition variable as they were.
C17_NoPopFromEmpty ==
    [][(PopReturns /\ cons'.op = "pop_one" /\ entries = <<>>)
          => /\ cons'.kind \in {"empty", "aborted"}
             /\ cons'.res = <<>>
             /\ entries' = entries
             /\ used_memory' = used_memory
             /\ cond_var' = cond_var
             /\ returned' = returned]_vars

\* C17 witness: pop_one has returned absent with its token not fired, because
\* clear() emptied the buffer between its wake-up and its resumption.
C17_Witness ==
    /\ cons.pc = "idle" /\ cons.op = "pop_one" /\ cons.kind = "empty"
    /\ cons.as \notin aborted
    /\ entries = <<>> /\ used_memory = 0
    /\ discarded # {}

\* Where the entries that were passed to push are: in the push still in
\* flight, in the buffer, handed to a pop, thrown away by clear(), or dropped
\* by a push that returned without appending.
InFlight == IF prod.pc = "idle" THEN {} ELSE {prod.entry.id}
InBuffer == Range(Ids(entries))
Returned == Range(returned)
Dropped == (1..npush) \ (Range(admitted) \cup InFlight)

\* C18, in every state: the admitted entries are exactly those in the buffer,
\* returned or discarded, each in one of the three and there once; an entry
\* still with its push or dropped by it is in none of them.
C18_Partition ==
    /\ Range(admitted) \subseteq 1..npush
    /\ Len(admitted) = Cardinality(Range(admitted))
    /\ Len(entries) = Cardinality(InBuffer)
    /\ Len(returned) = Cardinality(Returned)
    /\ InBuffer \cup Returned \cup discarded = Range(admitted)
    /\ InBuffer \cap Returned = {}
    /\ InBuffer \cap discarded = {}
    /\ Returned \cap discarded = {}
    /\ InFlight \cap Range(admitted) = {}
    /\ Dropped \cap (InBuffer \cup Returned \cup discarded) = {}

\* C18, when a call returns: a push has either appended its entry or was
\* cancelled and dropped it, and a pop hands out entries that were in the
\* buffer and are no longer.
C18_Returns ==
    /\ PushReturns =>
          \/ prod'.res = "admitted" /\ prod'.entry.id \in InBuffer'
          \/ prod'.res = "dropped" /\ prod'.as \in aborted
                                   /\ prod'.entry.id \in Dropped'
    /\ PopReturns =>
          /\ returned' = returned \o Ids(cons'.res)
          /\ Range(Ids(cons'.res)) \subseteq InBuffer \ InBuffer'

\* C18: every entry passed to push ends in exactly one place: still in the
\* buffer, returned by exactly one pop, discarded by clear(), or dropped by a
\* cancelled push; none is returned twice, none is returned that was never
\* admitted.
C18_ItemConservation == []C18_Partition /\ [][C18_Returns]_vars

\* C18 witness: of three entries pushed, one was returned by a pop, one was
\* discarded by clear() and one was dropped by a cancelled push.
C18_Witness ==
    /\ Quiescent /\ npush = 3
    /\ Cardinality(Returned) = 1
    /\ Cardinality(discarded) = 1
    /\ Cardinality(Dropped) = 1
    /\ entries = <<>>

\* C19, where the budget is exceeded: the step that takes used_memory above
\* max_memory is the return of a push that goes on after its wait without
\* testing the predicate again; a push that tests and appends in one run
\* never does it.
C19_OvershootStep ==
    (used_memory <= max_memory /\ used_memory' > max_memory)
        => /\ PushReturns
           /\ prod.pc \in {"wait_ret", "op_ret"}
           /\ used_memory + prod.mem > max_memory

\* C19: with two concurrent push calls used_memory can exceed max_memory, and
\* only through the gap between one producer's predicate check and its
\* append, in which the other producer was admitted.
C19_RaceWithTwoProducers == [][C19_OvershootStep]_vars

\* C19 witness: with two producers used_memory is above max_memory.
C19_Witness == used_memory > max_memory

\* C20 as stated: for every max_memory a push is admitted only where the
\* mathematical sum of used_memory and the charge is at most max_memory, and
\* the addition to used_memory does not wrap.
C20_NoWrapAdmission ==
    [][(admitted' # admitted)
          => /\ used_memory + prod'.mem <= max_memory
             /\ used_memory' = used_memory + prod'.mem]_vars

\* C20 as amended: a push is admitted only where the sum computed in the size
\* type is at most max_memory; for max_memory up to half the range of the size
\* type that sum is the mathematical one and used_memory does not wrap.
C20_NoWrapUpToHalfRange ==
    [][(admitted' # admitted)
          => /\ Add(used_memory, prod'.mem) <= max_memory
             /\ used_memory' = Add(used_memory, prod'.mem)
             /\ (2 * max_memory < SizeMod)
                  => /\ used_memory + prod'.mem <= max_memory
                     /\ used_memory' = used_memory + prod'.mem]_vars

\* C20 witness: with max_memory the largest size_t, a push was admitted
\* through a wrapped sum and used_memory is below the charges in the buffer.
C20_Witness ==
    /\ max_memory = SizeMax
    /\ prod.pc = "idle" /\ prod.res = "admitted"
    /\ used_memory < ChargeSum(entries)

====
